---- MODULE Spec2Model ----
(***************************************************************************)
(* A model of client.py (WakeyWakey client): the corridor generator of the *)
(* awake test, the pointer tracking loop with its anti-cheat corrector,    *)
(* the main program around them, its requests to the server, and the      *)
(* management loop.                                                        *)
(*                                                                         *)
(* Points and vectors are pairs <<x, y>>.  A canvas rectangle keeps its    *)
(* coordinates the way Tk keeps them: lowest corner first.                 *)
(***************************************************************************)
EXTENDS Integers, Sequences, FiniteSets, TLC

(* ---------------------------- program constants ----------------------- *)
MIN_LINE_LENGTH == 5
LINE_THICKNESS == 8
BORDER_MARGIN == 10
PRECISION_MOUSE_THRESHOLD == 7
\* create_awake_test_gui: the smallest window height and width
MIN_WINDOW == 36
\* create_test: size = winfo_width() - 3 - BORDER_MARGIN
SIZE_TRIM == 3

(* ------------------------------- bounds ------------------------------- *)
\* the largest window width and height the generator is run on
MaxWindow == 46
\* the generator is stopped after this many segments
MaxSegs == 5
\* random.randint(a, b) is taken to return one of the RandSpread lowest or one
\* of the RandSpread highest values of a..b
RandSpread == 2
\* how many further lines the check of the generator's termination looks ahead
FinishDepth == 4
\* the user moves the pointer at most this often during the awake test
MaxMoves == 2
\* the height of the window's title bar (settings: Window title margin)
TitleMargin == 3
\* handle_cheating on its own: pointer coordinates run over 0..CheatGrid
CheatGrid == 9
\* management starts no further pass of its loop once this many commands
\* have been sent
MaxRequests == 6
\* the numbers the user puts in at the menu are 0..MaxChoice
MaxChoice == 6

(* ------------------------------ helpers ------------------------------- *)
Abs(x) == IF x < 0 THEN 0 - x ELSE x
Min2(a, b) == IF a <= b THEN a ELSE b
Max2(a, b) == IF a >= b THEN a ELSE b

\* np.array_equal: same shape and same elements
array_equal(a, b) ==
    /\ Len(a) = Len(b)
    /\ \A i \in 1..Len(a) : a[i] = b[i]

\* v[v != 0] * -1 : the non-zero components, negated.  For the first line the
\* caller passes the list [0, 0], for which the expression is the scalar 0;
\* both are of another shape than a direction.
negated_nonzero(v) ==
    LET nz == SelectSeq(v, LAMBDA c : c # 0)
    IN  [i \in 1..Len(nz) |-> 0 - nz[i]]

\* Tk keeps a rectangle's lowest coordinates first
normalized(x0, y0, x1, y1) ==
    <<Min2(x0, x1), Min2(y0, y1), Max2(x0, x1), Max2(y0, y1)>>

\* canvas.find_overlapping: the area and the rectangle share a point
overlapping(area, bbox) ==
    /\ area[1] <= bbox[3]
    /\ bbox[1] <= area[3]
    /\ area[2] <= bbox[4]
    /\ bbox[2] <= area[4]

(* --------------------------- the generator ---------------------------- *)
\* Faulty variant: the signs of the dominant component are read the wrong way round
dominant_direction_sign_flipped(source, destination) ==
    LET direct_path == <<destination[1] - source[1], destination[2] - source[2]>>
    IN  IF Abs(direct_path[1]) >= Abs(direct_path[2])
        THEN IF direct_path[1] <= 0 THEN <<1, 0>> ELSE <<-1, 0>>
        ELSE IF direct_path[2] <= 0 THEN <<0, 1>> ELSE <<0, -1>>

\* determine_direction, lines 316-329: the cardinal direction of the larger
\* component of the vector from source to destination (a tie goes to x)
dominant_direction(source, destination) ==
    LET direct_path == <<destination[1] - source[1], destination[2] - source[2]>>
    IN  IF Abs(direct_path[1]) >= Abs(direct_path[2])
        THEN IF direct_path[1] >= 0 THEN <<1, 0>> ELSE <<-1, 0>>
        ELSE IF direct_path[2] >= 0 THEN <<0, 1>> ELSE <<0, -1>>

\* Faulty variant: the comparison with the previous direction is left out
determine_direction_without_swap(source, destination, previous_direction) ==
    dominant_direction(source, destination)

determine_direction(source, destination, previous_direction) ==
    LET direction == dominant_direction(source, destination)
        opposite_of_previous_direction == negated_nonzero(previous_direction)
    IN  IF \/ array_equal(direction, previous_direction)
           \/ array_equal(direction, opposite_of_previous_direction)
        THEN <<direction[2], direction[1]>>
        ELSE direction

\* Faulty variant: the sign of the direction is kept
max_direction_length_signed(size, direction) ==
    IF direction[1] # 0 THEN size[1] * direction[1] ELSE size[2] * direction[2]

\* abs(int((size * direction)[size * direction != 0][0]))
max_direction_length(size, direction) ==
    Abs(IF direction[1] # 0 THEN size[1] * direction[1] ELSE size[2] * direction[2])

\* Faulty variant: the end of the line is not clamped
clamped_line_end_unclamped(start_pt, size, direction, random_line_length) ==
    <<start_pt[1] + direction[1] * random_line_length,
      start_pt[2] + direction[2] * random_line_length>>

\* Faulty variant: a coordinate on the border margin counts as beyond it
clamped_line_end_margin_exclusive(start_pt, size, direction, random_line_length) ==
    LET raw == <<start_pt[1] + direction[1] * random_line_length,
                 start_pt[2] + direction[2] * random_line_length>>
        x == IF raw[1] > size[1] \/ raw[1] <= BORDER_MARGIN THEN size[1] ELSE raw[1]
        y == IF raw[2] > size[2] \/ raw[2] <= BORDER_MARGIN THEN size[2] ELSE raw[2]
    IN  <<x, y>>

\* draw_line, lines 275-280: the end of a line of the drawn length, clamped
clamped_line_end(start_pt, size, direction, random_line_length) ==
    LET raw == <<start_pt[1] + direction[1] * random_line_length,
                 start_pt[2] + direction[2] * random_line_length>>
        x == IF raw[1] > size[1] \/ raw[1] < BORDER_MARGIN THEN size[1] ELSE raw[1]
        y == IF raw[2] > size[2] \/ raw[2] < BORDER_MARGIN THEN size[2] ELSE raw[2]
    IN  <<x, y>>

\* Faulty variant: only the end of the line is looked for in the goal block
draw_line_goal_at_end_only(start_pt, end_pt, size, goal_bbox, previous_direction, random_line_length) ==
    LET direction == determine_direction(start_pt, end_pt, previous_direction)
        le == clamped_line_end(start_pt, size, direction, random_line_length)
    IN  [line_end |-> le,
         direction |-> direction,
         covers_goal |-> overlapping(<<le[1], le[2], le[1], le[2]>>, goal_bbox)]

\* draw_line for one drawn length: the line's end, its direction, and whether
\* the goal block is among the items overlapping the line
draw_line(start_pt, end_pt, size, goal_bbox, previous_direction, random_line_length) ==
    LET direction == determine_direction(start_pt, end_pt, previous_direction)
        le == clamped_line_end(start_pt, size, direction, random_line_length)
    IN  [line_end |-> le,
         direction |-> direction,
         covers_goal |-> overlapping(normalized(start_pt[1], start_pt[2], le[1], le[2]),
                                     goal_bbox)]


(* ---------------------- thickening and classifying -------------------- *)
\* Faulty variant: the thin line is not deleted
RECURSIVE thicken_lines_keeps_thin(_, _, _, _)
thicken_lines_keeps_thin(its, lines, new_lines, increase_factor) ==
    IF lines = <<>>
    THEN [items |-> its, lines |-> new_lines]
    ELSE LET line == Head(lines)
             c == its[line].bbox
             thick == [fill |-> "black",
                       bbox |-> normalized(c[1], c[2], c[3] + increase_factor,
                                           c[4] + increase_factor),
                       deleted |-> FALSE]
             its2 == Append(its, thick)
         IN  thicken_lines_keeps_thin(its2, Tail(lines), Append(new_lines, Len(its2)),
                                      increase_factor)

\* increase_line_thickness, one of its four loops: every line of the list is
\* deleted and drawn again with its far corner moved by increase_factor
RECURSIVE thicken_lines(_, _, _, _)
thicken_lines(its, lines, new_lines, increase_factor) ==
    IF lines = <<>>
    THEN [items |-> its, lines |-> new_lines]
    ELSE LET line == Head(lines)
             c == its[line].bbox
             thick == [fill |-> "black",
                       bbox |-> normalized(c[1], c[2], c[3] + increase_factor,
                                           c[4] + increase_factor),
                       deleted |-> FALSE]
             its2 == Append([its EXCEPT ![line].deleted = TRUE], thick)
         IN  thicken_lines(its2, Tail(lines), Append(new_lines, Len(its2)),
                           increase_factor)

\* str.upper, on the fill colours the program uses
upper(fill) ==
    CASE fill = "red" -> "RED"
      [] fill = "green" -> "GREEN"
      [] fill = "black" -> "BLACK"
      [] OTHER -> fill

\* Faulty variant: the text is left as it is
lower_unchanged(text) == text

\* str.lower, on the values of the Mock test setting
lower(text) ==
    CASE text = "True" -> "true"
      [] text = "YES" -> "yes"
      [] text = "No" -> "no"
      [] OTHER -> text

\* Faulty variant: black is looked for before red
get_pixel_color_black_first(its, x, y) ==
    LET ids == {i \in 1..Len(its) :
                   ~its[i].deleted /\ overlapping(<<x, y, x, y>>, its[i].bbox)}
        colors == {upper(its[i].fill) : i \in ids}
    IN  IF "BLACK" \in colors THEN "BLACK"
        ELSE IF "GREEN" \in colors THEN "GREEN"
        ELSE IF "RED" \in colors THEN "RED"
        ELSE "WHITE"

\* get_pixel_color: the colour of the items over the point, red before green
\* before black, white where there is none
get_pixel_color(its, x, y) ==
    LET ids == {i \in 1..Len(its) :
                   ~its[i].deleted /\ overlapping(<<x, y, x, y>>, its[i].bbox)}
        colors == {upper(its[i].fill) : i \in ids}
    IN  IF "RED" \in colors THEN "RED"
        ELSE IF "GREEN" \in colors THEN "GREEN"
        ELSE IF "BLACK" \in colors THEN "BLACK"
        ELSE "WHITE"

(* ----------------------------- the corrector -------------------------- *)
\* Faulty variant: a movement of just the threshold is answered as well
handle_cheating_at_threshold(previous, current) ==
    LET mv == <<current[1] - previous[1], current[2] - previous[2]>>
    IN  IF Abs(mv[1]) > Abs(mv[2])
        THEN IF Abs(mv[1]) >= PRECISION_MOUSE_THRESHOLD
             THEN [moved |-> TRUE,
                   to |-> <<previous[1] + mv[1] * (-1), current[2]>>,
                   new_previous |-> <<previous[1] + mv[1] * (-1), current[2]>>,
                   movement |-> mv]
             ELSE [moved |-> FALSE, to |-> <<0, 0>>, new_previous |-> current,
                   movement |-> mv]
        ELSE IF Abs(mv[2]) >= PRECISION_MOUSE_THRESHOLD
             THEN [moved |-> TRUE,
                   to |-> <<current[1], previous[2] + mv[2] * (-1)>>,
                   new_previous |-> <<current[1], previous[2] + mv[2] * (-1)>>,
                   movement |-> mv]
             ELSE [moved |-> FALSE, to |-> <<0, 0>>, new_previous |-> current,
                   movement |-> mv]

\* handle_cheating, from the sample it takes: whether it moves the pointer,
\* where to, and the previous sample it returns
handle_cheating(previous, current) ==
    LET mv == <<current[1] - previous[1], current[2] - previous[2]>>
    IN  IF Abs(mv[1]) > Abs(mv[2])
        THEN IF Abs(mv[1]) > PRECISION_MOUSE_THRESHOLD
             THEN [moved |-> TRUE,
                   to |-> <<previous[1] + mv[1] * (-1), current[2]>>,
                   new_previous |-> <<previous[1] + mv[1] * (-1), current[2]>>,
                   movement |-> mv]
             ELSE [moved |-> FALSE, to |-> <<0, 0>>, new_previous |-> current,
                   movement |-> mv]
        ELSE IF Abs(mv[2]) > PRECISION_MOUSE_THRESHOLD
             THEN [moved |-> TRUE,
                   to |-> <<current[1], previous[2] + mv[2] * (-1)>>,
                   new_previous |-> <<current[1], previous[2] + mv[2] * (-1)>>,
                   movement |-> mv]
             ELSE [moved |-> FALSE, to |-> <<0, 0>>, new_previous |-> current,
                   movement |-> mv]

(* ------------------------ the server connection ---------------------- *)
\* what happens on the sockets, in order: [op, sock, data]
event(op, sock, data) == [op |-> op, sock |-> sock, data |-> data]

\* server_connection: a socket is created and connected; a server that is
\* not up refuses, and connect raises
server_connection(sock, up) ==
    IF up THEN <<event("connect", sock, "")>> ELSE <<event("refused", sock, "")>>

\* Faulty variant: the connection is not closed
send_only_without_close(sock, up, command) ==
    IF ~up
    THEN [wire |-> server_connection(sock, up), sent |-> <<>>,
          raised |-> "ConnectionRefusedError", returned |-> ""]
    ELSE [wire |-> server_connection(sock, up) \o <<event("send", sock, command)>>,
          sent |-> <<command>>, raised |-> "", returned |-> ""]

\* set_alarm_state and the functions of its shape: connect, send, close.
\* The result: the socket events, the commands sent, the exception raised
\* ("" for none) and the text returned.
send_only(sock, up, command) ==
    IF ~up
    THEN [wire |-> server_connection(sock, up), sent |-> <<>>,
          raised |-> "ConnectionRefusedError", returned |-> ""]
    ELSE [wire |-> server_connection(sock, up)
                       \o <<event("send", sock, command), event("close", sock, "")>>,
          sent |-> <<command>>, raised |-> "", returned |-> ""]

\* get_timezone_time and load_user_preferences up to its close: connect,
\* send, recv, close
send_and_receive(sock, up, command, reply) ==
    IF ~up
    THEN [wire |-> server_connection(sock, up), sent |-> <<>>,
          raised |-> "ConnectionRefusedError", returned |-> ""]
    ELSE [wire |-> server_connection(sock, up)
                       \o <<event("send", sock, command), event("recv", sock, reply),
                            event("close", sock, "")>>,
          sent |-> <<command>>, raised |-> "", returned |-> reply]

\* int(text), on the texts a server sends for the alarm state; -1 stands for
\* the ValueError of a text that is no number
int(text) ==
    CASE text = "0" -> 0
      [] text = "1" -> 1
      [] OTHER -> -1

\* get_alarm_state: connect, send, recv, int(), close; int() of a malformed
\* reply raises before the close
get_alarm_state(sock, up, reply) ==
    IF ~up
    THEN [wire |-> server_connection(sock, up), sent |-> <<>>,
          raised |-> "ConnectionRefusedError", returned |-> ""]
    ELSE IF int(reply) = -1
    THEN [wire |-> server_connection(sock, up)
                       \o <<event("send", sock, "get_alarm_state"),
                            event("recv", sock, reply)>>,
          sent |-> <<"get_alarm_state">>, raised |-> "ValueError", returned |-> reply]
    ELSE [wire |-> server_connection(sock, up)
                       \o <<event("send", sock, "get_alarm_state"),
                            event("recv", sock, reply), event("close", sock, "")>>,
          sent |-> <<"get_alarm_state">>, raised |-> "", returned |-> reply]

set_alarm_state(sock, up, new_alarm_state) ==
    send_only(sock, up, "set_alarm_state " \o ToString(new_alarm_state))

get_timezone_time(sock, up, reply) ==
    send_and_receive(sock, up, "get_timezone_time", reply)

\* the reply to get_timezone_time of a server that works
TimezoneTime == "[7, 5, 9]"

\* display_timezone_time: the text is split at ", " and its parts are read as
\* numbers; a text of another form raises ("" here: none raised)
display_timezone_time(timezone_time) ==
    IF timezone_time = TimezoneTime THEN "" ELSE "IndexError"

\* the reply to get_user_preferences of a server that works
preferences_text(active_state) ==
    "{'active_state': " \o ToString(active_state) \o "}"

\* ast.literal_eval, on the replies to get_user_preferences: the dictionary,
\* or the exception raised
literal_eval(text) ==
    CASE text = preferences_text(0) -> [raised |-> "", active_state |-> 0]
      [] text = preferences_text(1) -> [raised |-> "", active_state |-> 1]
      [] OTHER -> [raised |-> "SyntaxError", active_state |-> -1]

\* load_user_preferences: connect, send, recv, close, and then literal_eval
load_user_preferences(sock, up, reply) ==
    LET r == send_and_receive(sock, up, "get_user_preferences", reply)
    IN  IF r.raised # "" THEN r
        ELSE [r EXCEPT !.raised = literal_eval(reply).raised]

set_active_state(sock, up, new_active_state) ==
    send_only(sock, up, "set_active_state " \o ToString(new_active_state))

\* change_active_state: the active state is set to what it was not
change_active_state(sock, up, current_active_state) ==
    IF current_active_state = 0
    THEN set_active_state(sock, up, 1)
    ELSE set_active_state(sock, up, 0)

change_wakeup_time(sock, up, hour_or_minute, value) ==
    send_only(sock, up, "set_wakeup_" \o hour_or_minute \o " " \o ToString(value))

change_wakeup_window(sock, up, new_wakeup_window) ==
    send_only(sock, up, "set_wakeup_window " \o ToString(new_wakeup_window))

change_utc_offset(sock, up, new_utc_offset) ==
    send_only(sock, up, "set_utc_offset " \o ToString(new_utc_offset))

change_grace_period(sock, up, new_grace_period) ==
    send_only(sock, up, "set_grace_period " \o ToString(new_grace_period))

(* ------------------------------- state -------------------------------- *)
VARIABLES
    pc,                 \* where the program is
    \* settings.ini, and the random source
    window_height, window_width, window_title_margin,
    mouse_y_offset, mouse_x_offset, mock_test,
    spread,             \* how near the ends of its range random.randint draws
    \* the server and the connection to it
    alarm_state,        \* main: the alarm state got from the server
    server_alarm,       \* the alarm state the server stores
    sent,               \* the commands sent to the server, in order
    wire,               \* the socket events so far, in order
    exception,          \* the exception that ended the program, if any
    server_active_state,\* the active state the server stores
    \* management
    user_preferences,   \* management: the preferences loaded last
    preference_to_change,   \* management: the number the user put in
    new_wakeup_minute,  \* management: the minute the user put in
    \* the canvas and create_test
    canvas,             \* <<winfo_width, winfo_height>> of the canvas
    items,              \* the canvas items, by id: [fill, bbox, deleted]
    size,               \* create_test: the game area
    start,              \* create_test: the start point
    end,                \* create_test: the goal point
    end_block,          \* create_test: the id of the goal rectangle
    line_end,           \* create_test: the end of the line drawn last
    previous_direction, \* create_test: the direction of the line drawn last
    path_complete,      \* create_test: the line drawn last touches the goal
    segments,           \* the draw_line calls so far: [start, end, direction]
    east_lines, west_lines, south_lines, north_lines,  \* ids of the lines, by direction
    \* the pointer and run_test
    mouse,              \* the position of the system pointer
    previous_mouse,     \* run_test: <<previous_mouse_x, previous_mouse_y>>
    current_mouse,      \* handle_cheating: <<current_mouse_x, current_mouse_y>>
    movement,           \* handle_cheating: movement
    last_moveTo,        \* the target of the last pyautogui.moveTo, with its caller
    mouse_xy,           \* run_test: <<mouse_x, mouse_y>>, the point classified
    current_pixel_color,\* run_test: current_pixel_color
    success,            \* run_test: success
    awake,              \* awake_test: awake
    moves,              \* how often the user has moved the pointer
    resets              \* how many wall touches in a row, up to MaxMoves

setVars == <<window_height, window_width, window_title_margin,
             mouse_y_offset, mouse_x_offset, mock_test, spread>>
mgmtVars == <<server_active_state, user_preferences, preference_to_change,
              new_wakeup_minute>>
netVars == <<alarm_state, server_alarm, sent, wire, exception, mgmtVars>>
genVars == <<canvas, items, size, start, end, end_block, line_end, previous_direction,
             path_complete, segments, east_lines, west_lines, south_lines, north_lines>>
trackVars == <<mouse, previous_mouse, current_mouse, movement, last_moveTo, mouse_xy,
               current_pixel_color, success, awake, moves, resets>>
vars == <<pc, setVars, netVars, genVars, trackVars>>

NoPoint == <<0, 0>>
NoMove == [by |-> "nobody", to |-> NoPoint]
NoException == [raised |-> "", in |-> ""]
NoPreferences == [active_state |-> -1]

\* the number of the socket created next
next_sock == Cardinality({i \in 1..Len(wire) : wire[i].op \in {"connect", "refused"}}) + 1

\* the effect of a request function fn with the result r on the wire, and
\* the exception it ends the program with, if it raised
Exchange(fn, r) ==
    /\ wire' = wire \o r.wire
    /\ sent' = sent \o r.sent
    /\ exception' = IF r.raised # "" THEN [raised |-> r.raised, in |-> fn] ELSE exception

\* management has not been entered
MgmtBlank ==
    /\ user_preferences = NoPreferences
    /\ preference_to_change = 0
    /\ new_wakeup_minute = 0

\* initialize has returned: its one request is on the wire
AfterInitialize(state) ==
    /\ alarm_state = state
    /\ server_alarm = state
    /\ sent = <<"get_alarm_state">>
    /\ wire = get_alarm_state(1, TRUE, ToString(state)).wire
    /\ exception = NoException
    /\ server_active_state = 1
    /\ MgmtBlank

\* random.randint(a, b): a value of a..b (here: one near either end of it)
randint(a, b) == {v \in a..b : v - a < spread \/ b - v < spread}

\* the lengths random.randint(MIN_LINE_LENGTH, max_direction_length) can return
line_lengths(start_pt, end_pt, sz, previous) ==
    randint(MIN_LINE_LENGTH,
            max_direction_length(sz, determine_direction(start_pt, end_pt, previous)))

rectangle(fill, x0, y0, x1, y1) ==
    [fill |-> fill, bbox |-> normalized(x0, y0, x1, y1), deleted |-> FALSE]

\* the canvas before create_test has drawn on it
GenBlank(c) ==
    /\ canvas = c
    /\ items = <<>>
    /\ size = NoPoint
    /\ start = NoPoint
    /\ end = NoPoint
    /\ end_block = 0
    /\ line_end = NoPoint
    /\ previous_direction = <<0, 0>>
    /\ path_complete = FALSE
    /\ segments = <<>>
    /\ east_lines = <<>>
    /\ west_lines = <<>>
    /\ south_lines = <<>>
    /\ north_lines = <<>>

\* the pointer at p, run_test not yet entered
TrackBlank(p) ==
    /\ mouse = p
    /\ previous_mouse = NoPoint
    /\ current_mouse = NoPoint
    /\ movement = NoPoint
    /\ last_moveTo = NoMove
    /\ mouse_xy = NoPoint
    /\ current_pixel_color = "none"
    /\ success = FALSE
    /\ awake = FALSE
    /\ moves = 0
    /\ resets = 0

\* create_awake_test_gui: a window dimension below the minimum is raised to it
coerced(window_dimension) ==
    IF window_dimension < MIN_WINDOW THEN MIN_WINDOW ELSE window_dimension

(* ------------------------ create_test, stepwise ----------------------- *)
\* create_test, lines 187-217: the start side, the start and the goal
PlaceStartAndGoal ==
    /\ pc = "create_test"
    /\ LET sz == <<canvas[1] - SIZE_TRIM - BORDER_MARGIN,
                   canvas[2] - SIZE_TRIM - BORDER_MARGIN>>
       IN  \E start_side \in 1..2 :
             IF start_side = 1
             THEN \E sy \in randint(BORDER_MARGIN, sz[2]), ey \in randint(BORDER_MARGIN, sz[2]) :
                    /\ start' = <<BORDER_MARGIN, sy>>
                    /\ end' = <<sz[1], ey>>
                    /\ items' = <<rectangle("green", BORDER_MARGIN, sy,
                                            BORDER_MARGIN + LINE_THICKNESS * 2,
                                            sy + LINE_THICKNESS * 2),
                                  rectangle("red", sz[1], ey,
                                            sz[1] - LINE_THICKNESS * 2,
                                            ey + LINE_THICKNESS * 2)>>
                    /\ size' = sz
             ELSE \E sx \in randint(BORDER_MARGIN, sz[1]), ex \in randint(BORDER_MARGIN, sz[1]) :
                    /\ start' = <<sx, BORDER_MARGIN>>
                    /\ end' = <<ex, sz[2]>>
                    /\ items' = <<rectangle("green", sx, BORDER_MARGIN,
                                            sx + LINE_THICKNESS * 2,
                                            BORDER_MARGIN + LINE_THICKNESS * 2),
                                  rectangle("red", ex, sz[2],
                                            ex + LINE_THICKNESS * 2,
                                            sz[2] - LINE_THICKNESS * 2)>>
                    /\ size' = sz
    /\ end_block' = 2
    /\ pc' = "start_line"
    /\ UNCHANGED <<canvas, line_end, previous_direction, path_complete, segments,
                   east_lines, west_lines, south_lines, north_lines>>
    /\ UNCHANGED <<setVars, netVars, trackVars>>

\* the effect of one draw_line call from start_pt with the drawn length
DrawLine(start_pt, random_line_length) ==
    LET r == draw_line(start_pt, end, size, items[end_block].bbox,
                       previous_direction, random_line_length)
        id == Len(items) + 1
    IN  /\ items' = Append(items, rectangle("black", start_pt[1], start_pt[2],
                                            r.line_end[1], r.line_end[2]))
        /\ east_lines' = IF r.direction[1] = 1 THEN Append(east_lines, id) ELSE east_lines
        /\ west_lines' = IF r.direction[1] = -1 THEN Append(west_lines, id) ELSE west_lines
        /\ south_lines' = IF r.direction[1] = 0 /\ r.direction[2] = 1
                          THEN Append(south_lines, id) ELSE south_lines
        /\ north_lines' = IF r.direction[1] = 0 /\ r.direction[2] = -1
                          THEN Append(north_lines, id) ELSE north_lines
        /\ segments' = Append(segments, [start |-> start_pt, end |-> r.line_end,
                                         direction |-> r.direction])
        /\ line_end' = r.line_end
        /\ previous_direction' = r.direction
        /\ path_complete' = r.covers_goal

\* create_test, lines 219-222: the start line, drawn from the start point
StartLine ==
    /\ pc = "start_line"
    /\ \E len \in line_lengths(start, end, size, previous_direction) :
         DrawLine(start, len)
    /\ pc' = "lines"
    /\ UNCHANGED <<canvas, size, start, end, end_block>>
    /\ UNCHANGED <<setVars, netVars, trackVars>>

\* Faulty variant: every line is drawn from the start point
NextLine_from_start ==
    /\ pc = "lines"
    /\ ~path_complete
    /\ Len(segments) < MaxSegs
    /\ \E len \in line_lengths(start, end, size, previous_direction) :
         DrawLine(start, len)
    /\ pc' = "lines"
    /\ UNCHANGED <<canvas, size, start, end, end_block>>
    /\ UNCHANGED <<setVars, netVars, trackVars>>

\* create_test, lines 224-230: one pass of the loop, a line from the last line's end
NextLine ==
    /\ pc = "lines"
    /\ ~path_complete
    /\ Len(segments) < MaxSegs
    /\ \E len \in line_lengths(line_end, end, size, previous_direction) :
         DrawLine(line_end, len)
    /\ pc' = "lines"
    /\ UNCHANGED <<canvas, size, start, end, end_block>>
    /\ UNCHANGED <<setVars, netVars, trackVars>>

\* create_test, lines 232-237: the lines are thickened, and create_test returns
Thicken ==
    /\ pc = "lines"
    /\ path_complete
    /\ LET e == thicken_lines(items, east_lines, <<>>, LINE_THICKNESS)
           w == thicken_lines(e.items, west_lines, <<>>, LINE_THICKNESS)
           so == thicken_lines(w.items, south_lines, <<>>, LINE_THICKNESS)
           n == thicken_lines(so.items, north_lines, <<>>, LINE_THICKNESS)
       IN  /\ items' = n.items
           /\ east_lines' = e.lines
           /\ west_lines' = w.lines
           /\ south_lines' = so.lines
           /\ north_lines' = n.lines
    /\ pc' = "awake_loop"
    /\ UNCHANGED <<canvas, size, start, end, end_block, line_end, previous_direction,
                   path_complete, segments>>
    /\ UNCHANGED <<setVars, netVars, trackVars>>

(* ------------------------------- main --------------------------------- *)
\* initialize: the settings are loaded, the alarm state is asked of the server
Initialize ==
    /\ pc = "initialize"
    /\ \E up \in BOOLEAN, reply \in {ToString(server_alarm), ""} :
         LET r == get_alarm_state(next_sock, up, reply)
         IN  /\ Exchange("get_alarm_state", r)
             /\ alarm_state' = IF r.raised = "" THEN int(r.returned) ELSE alarm_state
             /\ pc' = IF r.raised = "" THEN "main" ELSE "crashed"
    /\ UNCHANGED <<server_alarm, mgmtVars, setVars, genVars, trackVars>>

\* main, lines 40-61: a mock test counts as the alarm being on; the alarm on
\* leads to the awake test, the alarm off to management mode
MainBranch ==
    /\ pc = "main"
    /\ LET state == IF lower(mock_test) \in {"true", "1", "yes"} THEN 1 ELSE alarm_state
       IN  /\ alarm_state' = state
           /\ pc' = IF state = 1 THEN "create_gui"
                    ELSE IF state = 0 THEN "management"
                    ELSE "exit"
    /\ UNCHANGED <<server_alarm, sent, wire, exception, mgmtVars>>
    /\ UNCHANGED <<setVars, genVars, trackVars>>

\* awake_test, line 135: create_awake_test_gui
CreateGui ==
    /\ pc = "create_gui"
    /\ canvas' = <<coerced(window_width), coerced(window_height)>>
    /\ pc' = "create_test"
    /\ UNCHANGED <<items, size, start, end, end_block, line_end, previous_direction,
                   path_complete, segments, east_lines, west_lines, south_lines,
                   north_lines>>
    /\ UNCHANGED <<setVars, netVars, trackVars>>

\* Faulty variant: the test is created anew before every call of run_test
AwakeLoop_creates_test_again ==
    /\ pc = "awake_loop"
    /\ pc' = IF awake THEN "set_alarm_state" ELSE "create_test"
    /\ UNCHANGED <<setVars, netVars, genVars, trackVars>>

\* awake_test, lines 141-145: run_test is called until it has returned True
AwakeLoop ==
    /\ pc = "awake_loop"
    /\ pc' = IF awake THEN "set_alarm_state" ELSE "run_test"
    /\ UNCHANGED <<setVars, netVars, genVars, trackVars>>

\* main, lines 50-53: the alarm is stopped, and the program exits
SetAlarmState ==
    /\ pc = "set_alarm_state"
    /\ \E up \in BOOLEAN :
         LET r == set_alarm_state(next_sock, up, 0)
         IN  /\ Exchange("set_alarm_state", r)
             /\ server_alarm' = IF r.raised = "" THEN 0 ELSE server_alarm
             /\ pc' = IF r.raised = "" THEN "exit" ELSE "crashed"
    /\ UNCHANGED <<alarm_state, mgmtVars, setVars, genVars, trackVars>>

(* ----------------------------- management ---------------------------- *)
\* the numbers the user puts in for a new value
InputValues == {0, 7}

\* management, lines 629-630: the time of the timezone is got and shown
GetTimezoneTime ==
    /\ pc = "management"
    /\ Len(sent) < MaxRequests
    /\ \E up \in BOOLEAN, reply \in {TimezoneTime, ""} :
         LET r == get_timezone_time(next_sock, up, reply)
             shown == IF r.raised # "" THEN r
                      ELSE [r EXCEPT !.raised = display_timezone_time(r.returned)]
         IN  /\ Exchange(IF r.raised # "" THEN "get_timezone_time"
                          ELSE "display_timezone_time", shown)
             /\ pc' = IF shown.raised = "" THEN "load_user_preferences" ELSE "crashed"
    /\ UNCHANGED <<alarm_state, server_alarm, mgmtVars, setVars, genVars, trackVars>>

\* management, lines 633-634: the preferences are loaded and shown
LoadUserPreferences ==
    /\ pc = "load_user_preferences"
    /\ \E up \in BOOLEAN, reply \in {preferences_text(server_active_state), ""} :
         LET r == load_user_preferences(next_sock, up, reply)
         IN  /\ Exchange("load_user_preferences", r)
             /\ user_preferences' =
                    IF r.raised = ""
                    THEN [active_state |-> literal_eval(r.returned).active_state]
                    ELSE user_preferences
             /\ pc' = IF r.raised = "" THEN "get_input" ELSE "crashed"
    /\ UNCHANGED <<alarm_state, server_alarm, server_active_state, preference_to_change,
                   new_wakeup_minute, setVars, genVars, trackVars>>

\* Faulty variant: the number 0 ends management
GetInput_zero_ends ==
    /\ pc = "get_input"
    /\ \E user_input \in 0..MaxChoice :
         /\ preference_to_change' = user_input
         /\ pc' = IF user_input = 0 THEN "exit" ELSE "change"
    /\ UNCHANGED <<alarm_state, server_alarm, sent, wire, exception, server_active_state,
                   user_preferences, new_wakeup_minute, setVars, genVars, trackVars>>

\* management, line 637: get_input returns the number the user put in
GetInput ==
    /\ pc = "get_input"
    /\ \E user_input \in 0..MaxChoice : preference_to_change' = user_input
    /\ pc' = "change"
    /\ UNCHANGED <<alarm_state, server_alarm, sent, wire, exception, server_active_state,
                   user_preferences, new_wakeup_minute, setVars, genVars, trackVars>>

\* management, lines 640-672: the preference of the number is changed; for
\* the wakeup time this is the first of two requests.  Any other number
\* changes nothing.  The loop starts again.
ChangePreference ==
    /\ pc = "change"
    /\ \E up \in BOOLEAN, value \in InputValues, minute \in InputValues :
         LET fn == CASE preference_to_change = 1 -> "set_active_state"
                     [] preference_to_change = 2 -> "change_wakeup_time"
                     [] preference_to_change = 3 -> "change_wakeup_window"
                     [] preference_to_change = 4 -> "change_utc_offset"
                     [] preference_to_change = 5 -> "change_grace_period"
                     [] OTHER -> ""
             r == CASE preference_to_change = 1 ->
                         change_active_state(next_sock, up, user_preferences.active_state)
                    [] preference_to_change = 2 ->
                         change_wakeup_time(next_sock, up, "hour", value)
                    [] preference_to_change = 3 ->
                         change_wakeup_window(next_sock, up, value)
                    [] preference_to_change = 4 ->
                         change_utc_offset(next_sock, up, value)
                    [] preference_to_change = 5 ->
                         change_grace_period(next_sock, up, value)
                    [] OTHER -> [wire |-> <<>>, sent |-> <<>>, raised |-> "",
                                 returned |-> ""]
         IN  /\ Exchange(fn, r)
             /\ new_wakeup_minute' = IF preference_to_change = 2 THEN minute
                                      ELSE new_wakeup_minute
             /\ server_active_state' =
                    IF preference_to_change = 1 /\ r.raised = ""
                    THEN (IF user_preferences.active_state = 0 THEN 1 ELSE 0)
                    ELSE server_active_state
             /\ pc' = IF r.raised # "" THEN "crashed"
                      ELSE IF preference_to_change = 2 THEN "change_minute"
                      ELSE "management"
    /\ UNCHANGED <<alarm_state, server_alarm, user_preferences, preference_to_change,
                   setVars, genVars, trackVars>>

\* management, line 651: the second request of a change of the wakeup time
ChangeWakeupMinute ==
    /\ pc = "change_minute"
    /\ \E up \in BOOLEAN :
         LET r == change_wakeup_time(next_sock, up, "minute", new_wakeup_minute)
         IN  /\ Exchange("change_wakeup_time", r)
             /\ pc' = IF r.raised # "" THEN "crashed" ELSE "management"
    /\ UNCHANGED <<alarm_state, server_alarm, mgmtVars, setVars, genVars, trackVars>>

(* ------------------------------ run_test ------------------------------ *)
\* Faulty variant: half the line thickness is taken off, not put on
start_position_beside_block ==
    <<start[1] - LINE_THICKNESS \div 2,
      start[2] + window_title_margin - LINE_THICKNESS \div 2>>

\* Faulty variant: the pointer is put on the corner of the start block
start_position_on_corner ==
    <<start[1], start[2] + window_title_margin>>

\* where run_test puts the pointer: the start point, plus half the line
\* thickness, plus the title bar
start_position ==
    <<start[1] + LINE_THICKNESS \div 2,
      start[2] + window_title_margin + LINE_THICKNESS \div 2>>

\* run_test, lines 435-438: the pointer is put over the start block
RunTestEnter ==
    /\ pc = "run_test"
    /\ mouse' = start_position
    /\ last_moveTo' = [by |-> "run_test", to |-> start_position]
    /\ success' = FALSE
    /\ pc' = "first_sample"
    /\ UNCHANGED <<previous_mouse, current_mouse, movement, mouse_xy,
                   current_pixel_color, awake, moves, resets>>
    /\ UNCHANGED <<setVars, netVars, genVars>>

\* Faulty variant: the first previous sample is not taken
FirstSample_not_taken ==
    /\ pc = "first_sample"
    /\ pc' = "handle_cheating"
    /\ UNCHANGED <<mouse, previous_mouse, current_mouse, movement, last_moveTo, mouse_xy,
                   current_pixel_color, success, awake, moves, resets>>
    /\ UNCHANGED <<setVars, netVars, genVars>>

\* run_test, line 440: the first previous sample
FirstSample ==
    /\ pc = "first_sample"
    /\ previous_mouse' = mouse
    /\ pc' = "handle_cheating"
    /\ UNCHANGED <<mouse, current_mouse, movement, last_moveTo, mouse_xy,
                   current_pixel_color, success, awake, moves, resets>>
    /\ UNCHANGED <<setVars, netVars, genVars>>

\* run_test, line 446, and handle_cheating: the pointer is sampled, a jump
\* is answered by moving the pointer, and the previous sample is replaced
HandleCheating ==
    /\ pc = "handle_cheating"
    /\ LET r == handle_cheating(previous_mouse, mouse)
       IN  /\ current_mouse' = mouse
           /\ movement' = r.movement
           /\ mouse' = IF r.moved THEN r.to ELSE mouse
           /\ last_moveTo' = IF r.moved THEN [by |-> "handle_cheating", to |-> r.to]
                             ELSE last_moveTo
           /\ previous_mouse' = r.new_previous
    /\ pc' = "classify"
    /\ UNCHANGED <<mouse_xy, current_pixel_color, success, awake, moves, resets>>
    /\ UNCHANGED <<setVars, netVars, genVars>>

\* Faulty variant: a black pixel counts as the goal
Classify_black_succeeds ==
    /\ pc = "classify"
    /\ LET xy == <<mouse[1] + mouse_x_offset, mouse[2] + mouse_y_offset>>
           color == get_pixel_color(items, xy[1], xy[2])
       IN  /\ mouse_xy' = xy
           /\ current_pixel_color' = color
           /\ IF color = "WHITE"
              THEN /\ mouse' = start_position
                   /\ last_moveTo' = [by |-> "wall", to |-> start_position]
                   /\ resets' = IF resets < MaxMoves THEN resets + 1 ELSE resets
                   /\ pc' = "wall_resync"
                   /\ UNCHANGED <<success, awake>>
              ELSE IF color = "BLACK"
              THEN /\ success' = TRUE
                   /\ awake' = TRUE
                   /\ resets' = 0
                   /\ pc' = "awake_loop"
                   /\ UNCHANGED <<mouse, last_moveTo>>
              ELSE /\ resets' = 0
                   /\ pc' = "handle_cheating"
                   /\ UNCHANGED <<mouse, last_moveTo, success, awake>>
    /\ UNCHANGED <<previous_mouse, current_mouse, movement, moves>>
    /\ UNCHANGED <<setVars, netVars, genVars>>

\* run_test, lines 448-474: the pointer is sampled again, translated by the
\* offsets and classified.  White: the pointer is moved back to the start.
\* Red: success, run_test returns and awake_test sets awake.  Otherwise the
\* loop goes on.
Classify ==
    /\ pc = "classify"
    /\ LET xy == <<mouse[1] + mouse_x_offset, mouse[2] + mouse_y_offset>>
           color == get_pixel_color(items, xy[1], xy[2])
       IN  /\ mouse_xy' = xy
           /\ current_pixel_color' = color
           /\ IF color = "WHITE"
              THEN /\ mouse' = start_position
                   /\ last_moveTo' = [by |-> "wall", to |-> start_position]
                   /\ resets' = IF resets < MaxMoves THEN resets + 1 ELSE resets
                   /\ pc' = "wall_resync"
                   /\ UNCHANGED <<success, awake>>
              ELSE IF color = "RED"
              THEN /\ success' = TRUE
                   /\ awake' = TRUE
                   /\ resets' = 0
                   /\ pc' = "awake_loop"
                   /\ UNCHANGED <<mouse, last_moveTo>>
              ELSE /\ resets' = 0
                   /\ pc' = "handle_cheating"
                   /\ UNCHANGED <<mouse, last_moveTo, success, awake>>
    /\ UNCHANGED <<previous_mouse, current_mouse, movement, moves>>
    /\ UNCHANGED <<setVars, netVars, genVars>>

\* Faulty variant: the previous sample is not taken again after the move to the start
WallResync_keeps_previous ==
    /\ pc = "wall_resync"
    /\ pc' = "handle_cheating"
    /\ UNCHANGED <<mouse, previous_mouse, current_mouse, movement, last_moveTo, mouse_xy,
                   current_pixel_color, success, awake, moves, resets>>
    /\ UNCHANGED <<setVars, netVars, genVars>>

\* run_test, lines 461-462: after the move to the start, the previous sample
\* is taken again
WallResync ==
    /\ pc = "wall_resync"
    /\ previous_mouse' = mouse
    /\ pc' = "handle_cheating"
    /\ UNCHANGED <<mouse, current_mouse, movement, last_moveTo, mouse_xy,
                   current_pixel_color, success, awake, moves, resets>>
    /\ UNCHANGED <<setVars, netVars, genVars>>

\* the screen position that run_test translates to the canvas point p
to_screen(p) == <<p[1] - mouse_x_offset, p[2] - mouse_y_offset>>

\* where the user moves the pointer: into the goal block, off the canvas
\* items, to the end of the first line, one pixel on, or by a jump just over
\* the threshold
user_targets ==
    LET g == items[end_block].bbox
    IN  { to_screen(<<(g[1] + g[3]) \div 2, (g[2] + g[4]) \div 2>>),
          to_screen(<<0, 0>>),
          to_screen(segments[1].end),
          <<mouse[1] + 1, mouse[2]>>,
          <<mouse[1], mouse[2] + PRECISION_MOUSE_THRESHOLD + 1>> }

\* the user moves the pointer, at any moment of run_test
UserMove ==
    /\ pc \in {"first_sample", "handle_cheating", "classify", "wall_resync"}
    /\ moves < MaxMoves
    /\ \E p \in user_targets : mouse' = p
    /\ moves' = moves + 1
    /\ UNCHANGED <<pc, previous_mouse, current_mouse, movement, last_moveTo, mouse_xy,
                   current_pixel_color, success, awake, resets>>
    /\ UNCHANGED <<setVars, netVars, genVars>>

(* ----------------------- the whole program: Spec ---------------------- *)
MockTexts == {"True", "YES", "1", "no"}

Init ==
    /\ pc = "initialize"
    /\ window_width = MIN_WINDOW - 1
    /\ window_height = MIN_WINDOW
    /\ window_title_margin = TitleMargin
    /\ mouse_x_offset = 0
    /\ mouse_y_offset \in {0 - TitleMargin, 0}
    /\ mock_test \in MockTexts
    /\ spread = 1
    /\ alarm_state = -1
    /\ server_alarm \in {0, 1}
    /\ sent = <<>>
    /\ wire = <<>>
    /\ exception = NoException
    /\ server_active_state = 1
    /\ MgmtBlank
    /\ GenBlank(NoPoint)
    /\ TrackBlank(NoPoint)

Next ==
    \/ Initialize
    \/ MainBranch
    \/ CreateGui
    \/ PlaceStartAndGoal
    \/ StartLine
    \/ NextLine
    \/ Thicken
    \/ AwakeLoop
    \/ RunTestEnter
    \/ FirstSample
    \/ HandleCheating
    \/ Classify
    \/ WallResync
    \/ UserMove
    \/ SetAlarmState
    \/ GetTimezoneTime
    \/ LoadUserPreferences
    \/ GetInput
    \/ ChangePreference
    \/ ChangeWakeupMinute

Spec == Init /\ [][Next]_vars

(* ---------------- the generator on its own: SpecGen ------------------- *)
GenCanvases == {<<w, h>> : w \in {MIN_WINDOW, MaxWindow}, h \in {MIN_WINDOW, MaxWindow}}

\* create_test is entered, on a canvas of one of the sizes
InitGen ==
    /\ pc = "create_test"
    /\ \E c \in GenCanvases :
         /\ window_width = c[1]
         /\ window_height = c[2]
         /\ GenBlank(c)
    /\ window_title_margin = TitleMargin
    /\ mouse_x_offset = 0
    /\ mouse_y_offset = 0 - TitleMargin
    /\ mock_test = "no"
    /\ spread = RandSpread
    /\ AfterInitialize(1)
    /\ TrackBlank(NoPoint)

NextGen ==
    \/ PlaceStartAndGoal
    \/ StartLine
    \/ NextLine
    \/ Thicken

SpecGen == InitGen /\ [][NextGen]_vars

(* --------------- handle_cheating on its own: SpecCheat ---------------- *)
\* handle_cheating is called with a previous sample and the pointer anywhere
\* on the grid
InitCheat ==
    /\ pc = "handle_cheating"
    /\ window_width = MIN_WINDOW
    /\ window_height = MIN_WINDOW
    /\ window_title_margin = TitleMargin
    /\ mouse_x_offset = 0
    /\ mouse_y_offset = 0 - TitleMargin
    /\ mock_test = "no"
    /\ spread = 1
    /\ AfterInitialize(1)
    /\ GenBlank(<<MIN_WINDOW, MIN_WINDOW>>)
    /\ mouse \in (0..CheatGrid) \X (0..CheatGrid)
    /\ previous_mouse \in (0..CheatGrid) \X (0..CheatGrid)
    /\ current_mouse = NoPoint
    /\ movement = NoPoint
    /\ last_moveTo = NoMove
    /\ mouse_xy = NoPoint
    /\ current_pixel_color = "none"
    /\ success = FALSE
    /\ awake = FALSE
    /\ moves = 0
    /\ resets = 0

NextCheat == HandleCheating

SpecCheat == InitCheat /\ [][NextCheat]_vars

(* ====================================================================== *)
(*                       the generator's properties                       *)
(* ====================================================================== *)
opposite(direction) == <<0 - direction[1], 0 - direction[2]>>
goal_bbox == items[end_block].bbox
\* how far a segment's end lies ahead of its start, in the segment's direction
advance(seg) ==
    (seg.end[1] - seg.start[1]) * seg.direction[1]
        + (seg.end[2] - seg.start[2]) * seg.direction[2]
\* the length of a segment, measured between its start and its end
measured_length(seg) ==
    Abs(seg.end[1] - seg.start[1]) + Abs(seg.end[2] - seg.start[2])
\* the free span left on the segment's axis, from its start to the margin ahead
free_span(seg) ==
    LET axis == IF seg.direction[1] # 0 THEN 1 ELSE 2
    IN  IF seg.direction[axis] = 1
        THEN canvas[axis] - BORDER_MARGIN - seg.start[axis]
        ELSE seg.start[axis] - BORDER_MARGIN

\* C4 (as claimed): no segment runs in the exact opposite direction of the
\* segment before it.
C4_NoReversal ==
    \A i \in 2..Len(segments) :
        segments[i].direction # opposite(segments[i-1].direction)

\* C5: no segment runs in the same direction as the segment before it, and
\* whenever the dominant direction toward the goal equals the previous
\* direction, the segment is drawn in that direction with its components
\* swapped.
C5_NoRepetition ==
    \A i \in 2..Len(segments) :
        /\ segments[i].direction # segments[i-1].direction
        /\ dominant_direction(segments[i].start, end) = segments[i-1].direction
             => segments[i].direction =
                    <<segments[i-1].direction[2], segments[i-1].direction[1]>>

\* C5 witness: a second or later segment whose dominant direction was the
\* previous one, so that the swap was applied.
C5_Witness ==
    \E i \in 2..Len(segments) :
        dominant_direction(segments[i].start, end) = segments[i-1].direction

\* C6: the first segment starts at the start point, every later segment
\* starts at the end of the segment before it, and once the path is complete
\* the last segment's rectangle overlaps the goal rectangle.
C6_Connectivity ==
    /\ Len(segments) >= 1 => segments[1].start = start
    /\ \A i \in 2..Len(segments) : segments[i].start = segments[i-1].end
    /\ path_complete =>
         LET last == segments[Len(segments)]
         IN  overlapping(normalized(last.start[1], last.start[2],
                                    last.end[1], last.end[2]), goal_bbox)

\* C6 witness: a complete path of three or more segments, one of which (not
\* the last) ended at a clamped point: its end does not lie ahead of its start.
C6_Witness ==
    /\ path_complete
    /\ Len(segments) >= 3
    /\ \E i \in 1..(Len(segments) - 1) : advance(segments[i]) <= 0

\* whether the goal can be touched within k more lines, for some lengths
\* random.randint can return
RECURSIVE can_finish(_, _, _)
can_finish(head, previous, k) ==
    /\ k > 0
    /\ \E len \in MIN_LINE_LENGTH ..
                    max_direction_length(size, determine_direction(head, end, previous)) :
         LET r == draw_line(head, end, size, goal_bbox, previous, len)
         IN  r.covers_goal \/ can_finish(r.line_end, r.direction, k - 1)

\* C7: from every state of the segment loop in which the path is not yet
\* complete, some choice of lengths draws a segment overlapping the goal
\* within FinishDepth lines: no generator state is a dead end, so under fair
\* random choice the loop stops.
C7_Termination ==
    /\ pc = "start_line" => can_finish(start, previous_direction, FinishDepth)
    /\ (pc = "lines" /\ ~path_complete)
          => can_finish(line_end, previous_direction, FinishDepth)

\* C7 witness: the loop after three lines that did not touch the goal.
C7_Witness ==
    /\ pc = "lines"
    /\ ~path_complete
    /\ Len(segments) >= 3

\* C8: the start and the end of every segment lie within
\* [margin, canvas dimension - margin] on both axes.
C8_Bounds ==
    \A i \in 1..Len(segments) :
        \A p \in {segments[i].start, segments[i].end} :
            /\ BORDER_MARGIN <= p[1] /\ p[1] <= canvas[1] - BORDER_MARGIN
            /\ BORDER_MARGIN <= p[2] /\ p[2] <= canvas[2] - BORDER_MARGIN

\* C8 witness: a segment whose end was clamped (it lies on the far edge of
\* the game area, not ahead of the segment's start).
C8_Witness ==
    \E i \in 1..Len(segments) :
        /\ advance(segments[i]) <= 0
        /\ \/ segments[i].end[1] = size[1]
           \/ segments[i].end[2] = size[2]

\* C9 (as claimed): every segment, measured between its start and its
\* clamped end, is at least MIN_LINE_LENGTH long and at most as long as the
\* free span left on its axis.
C9_SegmentLength ==
    \A i \in 1..Len(segments) :
        /\ measured_length(segments[i]) >= MIN_LINE_LENGTH
        /\ measured_length(segments[i]) <= free_span(segments[i])

\* the axis a direction runs along, and the axis across it
axis_of(direction) == IF direction[1] # 0 THEN 1 ELSE 2
across(direction) == 3 - axis_of(direction)

\* C16: every segment's direction is one of the four cardinal directions,
\* and its start and its end have the same coordinate on the axis across
\* it: neither the length step nor the clamping step changes it.
C16_AxisAlignment ==
    \A i \in 1..Len(segments) :
        /\ segments[i].direction \in {<<1, 0>>, <<-1, 0>>, <<0, 1>>, <<0, -1>>}
        /\ segments[i].end[across(segments[i].direction)]
              = segments[i].start[across(segments[i].direction)]

\* C16 witness: a segment that lies on the border margin (its coordinate
\* across its direction is BORDER_MARGIN) and whose end was clamped.
C16_Witness ==
    \E i \in 1..Len(segments) :
        /\ segments[i].start[across(segments[i].direction)] = BORDER_MARGIN
        /\ advance(segments[i]) <= 0
        /\ segments[i].end[axis_of(segments[i].direction)]
              = size[axis_of(segments[i].direction)]

\* the bounds of the range random.randint draws the next line's length from
length_range(head) ==
    <<MIN_LINE_LENGTH,
      max_direction_length(size, determine_direction(head, end, previous_direction))>>

\* C21: on every step of a generation on a canvas of at least 36 by 36, the
\* range random.randint is called with next is not empty: the range
\* [BORDER_MARGIN, size] of the start and goal coordinates on both axes, and
\* the range [MIN_LINE_LENGTH, size on the line's axis] of the length of the
\* start line and of every further line.
C21_NoGenerationFailure ==
    /\ pc = "create_test"
         => /\ canvas[1] >= MIN_WINDOW /\ canvas[2] >= MIN_WINDOW
            /\ BORDER_MARGIN <= canvas[1] - SIZE_TRIM - BORDER_MARGIN
            /\ BORDER_MARGIN <= canvas[2] - SIZE_TRIM - BORDER_MARGIN
    /\ pc = "start_line"
         => /\ length_range(start)[1] <= length_range(start)[2]
            /\ length_range(start)[2] \in {size[1], size[2]}
    /\ (pc = "lines" /\ ~path_complete)
         => /\ length_range(line_end)[1] <= length_range(line_end)[2]
            /\ length_range(line_end)[2] \in {size[1], size[2]}

\* C21 witness: on a canvas of the smallest width or height, a line is to be
\* drawn West or North after two lines that did not touch the goal.
C21_Witness ==
    /\ pc = "lines"
    /\ ~path_complete
    /\ canvas[1] = MIN_WINDOW \/ canvas[2] = MIN_WINDOW
    /\ Len(segments) >= 2
    /\ determine_direction(line_end, end, previous_direction) \in {<<-1, 0>>, <<0, -1>>}

\* C22 (as claimed): the end of every segment lies from its start in the
\* sense of the segment's direction, or at it: clamping reverses no segment.
C22_ClampKeepsSense ==
    \A i \in 1..Len(segments) : advance(segments[i]) >= 0

\* the segment's line, as drawn, shares a point with the goal block
touches_goal(seg) ==
    overlapping(normalized(seg.start[1], seg.start[2], seg.end[1], seg.end[2]),
                goal_bbox)

\* C26: no segment but the last one overlaps the goal region (so none is
\* drawn after one that does), the path is complete exactly when the last
\* one does, and create_test returns only with the path complete.
C26_StopsAtFirstOverlap ==
    /\ \A i \in 1..(Len(segments) - 1) : ~touches_goal(segments[i])
    /\ Len(segments) >= 1 => (path_complete <=> touches_goal(segments[Len(segments)]))
    /\ pc = "awake_loop" => path_complete

\* C26 witness: create_test has returned with a path of two or more
\* segments, the last of which crosses the goal block and ends outside it.
C26_Witness ==
    /\ pc = "awake_loop"
    /\ Len(segments) >= 2
    /\ ~overlapping(<<line_end[1], line_end[2], line_end[1], line_end[2]>>, goal_bbox)

\* the bucket of a direction, and the segments drawn in it, in order
bucket(direction) ==
    CASE direction = <<1, 0>> -> east_lines
      [] direction = <<-1, 0>> -> west_lines
      [] direction = <<0, 1>> -> south_lines
      [] direction = <<0, -1>> -> north_lines
segments_of(direction) == SelectSeq(segments, LAMBDA seg : seg.direction = direction)
\* the thin line of a segment, as the canvas keeps it
thin(seg) == normalized(seg.start[1], seg.start[2], seg.end[1], seg.end[2])
\* the items of the canvas that are lines and not deleted
lines_left == {i \in 3..Len(items) : ~items[i].deleted}
\* the thickening pass has run
thickened == pc = "awake_loop"

\* C27: the thickening pass runs once, when the path is complete.  Before it
\* every bucket holds the thin lines of its direction; after it every bucket
\* holds as many rectangles as before, one for each thin line, in order,
\* with the same near corner and the far corner moved by LINE_THICKNESS on
\* both axes, containing the thin line; the thin lines are deleted, and no
\* item but the start, the goal and the buckets' rectangles is left.
C27_Thickening ==
    /\ thickened => path_complete
    /\ pc # "create_test"
         => Len(items) = 2 + Len(segments) * (IF thickened THEN 2 ELSE 1)
    /\ \A d \in {<<1, 0>>, <<-1, 0>>, <<0, 1>>, <<0, -1>>} :
         /\ Len(bucket(d)) = Len(segments_of(d))
         /\ \A k \in 1..Len(bucket(d)) :
              LET t == thin(segments_of(d)[k])
                  r == items[bucket(d)[k]]
              IN  /\ ~r.deleted
                  /\ r.fill = "black"
                  /\ r.bbox = IF thickened
                              THEN <<t[1], t[2], t[3] + LINE_THICKNESS, t[4] + LINE_THICKNESS>>
                              ELSE t
                  /\ r.bbox[1] <= t[1] /\ r.bbox[2] <= t[2]
                  /\ t[3] <= r.bbox[3] /\ t[4] <= r.bbox[4]
    /\ Cardinality(lines_left) = Len(segments)
    /\ thickened => \A i \in 3..(2 + Len(segments)) : items[i].deleted

\* C27 witness: a path of three or more segments with a line West or North
\* among them has been thickened.
C27_Witness ==
    /\ thickened
    /\ Len(segments) >= 3
    /\ Len(west_lines) + Len(north_lines) >= 1
    /\ Len(east_lines) + Len(south_lines) >= 2

(* ====================================================================== *)
(*                 the tracking loop's and main's properties              *)
(* ====================================================================== *)
silenced == \E i \in 1..Len(sent) : sent[i] = "set_alarm_state 0"
\* the point lies in no item of the canvas
is_wall(p) ==
    \A i \in 1..Len(items) :
        items[i].deleted \/ ~overlapping(<<p[1], p[2], p[1], p[2]>>, items[i].bbox)
\* the point lies in the goal block
in_goal(p) == overlapping(<<p[1], p[2], p[1], p[2]>>, items[end_block].bbox)

\* C1: set_alarm_state 0 has been sent only if run_test has returned success
\* for a point classified in the goal block; it is not sent before or during
\* the challenge.
C1_SilencedOnlyAfterGoal ==
    silenced =>
        /\ pc = "exit"
        /\ success
        /\ awake
        /\ in_goal(mouse_xy)
        /\ sent = <<"get_alarm_state", "set_alarm_state 0">>

\* C1 witness: the alarm has been silenced after the user moved the pointer.
C1_Witness ==
    /\ silenced
    /\ moves >= 1
    /\ server_alarm = 0

\* C10: a tick whose point is Wall moves the pointer to the start position
\* and sets no success; the step after it takes the previous sample again
\* and goes on with the loop.
C10_WallReset ==
    [][ /\ (/\ pc = "classify"
            /\ pc' # "classify"
            /\ is_wall(<<mouse[1] + mouse_x_offset, mouse[2] + mouse_y_offset>>))
           => /\ pc' = "wall_resync"
              /\ mouse' = start_position
              /\ last_moveTo' = [by |-> "wall", to |-> start_position]
              /\ ~success'
              /\ ~awake'
        /\ (pc = "wall_resync" /\ pc' # "wall_resync")
           => /\ pc' = "handle_cheating"
              /\ previous_mouse' = mouse
              /\ ~success'
              /\ ~awake' ]_vars

\* C10 witness: two Wall ticks in a row, and the loop goes on.
C10_Witness ==
    /\ resets >= 2
    /\ pc = "handle_cheating"
    /\ ~success

\* the point run_test classifies when the pointer is where it is
point_under_pointer == <<mouse[1] + mouse_x_offset, mouse[2] + mouse_y_offset>>
\* run_test has returned
returned == pc \in {"awake_loop", "set_alarm_state", "exit", "crashed"} /\ success

\* C11: run_test returns exactly at a tick whose classified point is Goal, and
\* with success set; that tick sets the pointer nowhere, and after it no
\* sample is taken and no pointer-set is issued; a tick whose point is Wall
\* or Corridor/Start goes on with the loop, success not set.
C11_ExitAtGoal ==
    [][ /\ (pc = "classify" /\ pc' # "classify")
           => /\ (pc' = "awake_loop") <=> in_goal(point_under_pointer)
              /\ success' <=> in_goal(point_under_pointer)
              /\ in_goal(point_under_pointer)
                   => /\ mouse' = mouse
                      /\ last_moveTo' = last_moveTo
                      /\ mouse_xy' = point_under_pointer
              /\ ~in_goal(point_under_pointer)
                   => pc' \in {"handle_cheating", "wall_resync"}
        /\ returned
           => UNCHANGED <<mouse, mouse_xy, previous_mouse, current_mouse, last_moveTo,
                          current_pixel_color, success>> ]_vars

\* C11 witness: run_test has returned at a Goal tick, after ticks that were
\* Wall and after the user moved the pointer as often as the bound lets them.
C11_Witness ==
    /\ pc = "awake_loop"
    /\ success
    /\ current_pixel_color = "RED"
    /\ moves = MaxMoves
    /\ last_moveTo.by = "wall"

\* C12 (as claimed): at a Wall tick the pointer-set command targets the start
\* coordinate offset by half the line thickness on both axes.
C12_ResetToStartPlusHalf ==
    [][ (/\ pc = "classify"
         /\ pc' # "classify"
         /\ is_wall(point_under_pointer))
        => last_moveTo'.to = <<start[1] + LINE_THICKNESS \div 2,
                               start[2] + LINE_THICKNESS \div 2>> ]_vars

\* C12 (amended): at a Wall tick a reset is emitted, and the pointer-set
\* command it issues targets the start coordinate offset by half the line
\* thickness on both axes and, on the vertical axis, by the window title
\* margin as well; not before the step after it is another one issued.
C12_ResetToStartPosition ==
    [][ /\ (/\ pc = "classify"
            /\ pc' # "classify"
            /\ is_wall(point_under_pointer))
           => /\ last_moveTo'.by = "wall"
              /\ last_moveTo'.to = <<start[1] + LINE_THICKNESS \div 2,
                                     start[2] + window_title_margin
                                         + LINE_THICKNESS \div 2>>
              /\ mouse' = last_moveTo'.to
        /\ pc = "wall_resync" => last_moveTo' = last_moveTo ]_vars

\* C12 witness: the pointer has been set back to the start after the user
\* moved it off the corridor.
C12_Witness ==
    /\ pc = "wall_resync"
    /\ last_moveTo.by = "wall"
    /\ current_pixel_color = "WHITE"
    /\ moves >= 1

\* C15 (as claimed): the point a tick translates and classifies is the
\* position handle_cheating examined and produced in that tick (the sample
\* it took, or where it put the pointer), also when the user moves the
\* pointer during the tick.
C15_OneSamplePerTick ==
    [][ (pc = "classify" /\ pc' # "classify")
        => mouse_xy' = <<previous_mouse[1] + mouse_x_offset,
                         previous_mouse[2] + mouse_y_offset>> ]_vars

\* where the program is once create_test has returned
after_thickening ==
    {"awake_loop", "run_test", "first_sample", "handle_cheating", "classify",
     "wall_resync", "set_alarm_state", "exit"}

\* C17: once the thickening pass is done, no step (a call of run_test, a
\* sample, a correction, a classification, a wall reset, the user's moves)
\* changes the canvas items, the segments, the direction buckets, the start
\* or the goal, and the test is not created again.
C17_CorridorImmutable ==
    [][ (pc \in after_thickening)
        => /\ UNCHANGED <<canvas, items, size, start, end, end_block, segments,
                          east_lines, west_lines, south_lines, north_lines>>
           /\ pc' \in after_thickening \cup {"crashed"} ]_vars

\* C17 witness: the challenge is over after a wall reset and a correction
\* by handle_cheating were made on the corridor.
C17_Witness ==
    /\ pc = "set_alarm_state"
    /\ resets >= 1 \/ last_moveTo.by = "wall"
    /\ moves = MaxMoves
    /\ Len(segments) >= 2

\* the offsets of the settings compensate the window's title bar
offsets_compensate == mouse_x_offset = 0 /\ mouse_y_offset = 0 - window_title_margin
\* the point run_test classifies with the pointer where it first puts it
initial_point ==
    <<start_position[1] + mouse_x_offset, start_position[2] + mouse_y_offset>>

\* C23 (as claimed): with offsets that compensate the window chrome, the
\* point at which run_test first puts the pointer is not in the goal block,
\* and run_test does not succeed before the user has moved the pointer.
C23_NoInstantSuccess ==
    offsets_compensate
        => /\ pc \in after_thickening => ~in_goal(initial_point)
           /\ success => moves >= 1

\* C24: the previous sample is the pointer position the program observed or
\* set last: the position observed after the first placement and after a
\* wall reset, and after handle_cheating the position it observed or, if it
\* corrected, the position it set.  So in the tick after the program's own
\* move to the start, the user not having moved the pointer, handle_cheating
\* sees no movement and corrects nothing.
C24_PreviousIsLastPosition ==
    [][ /\ (pc = "first_sample" /\ pc' = "handle_cheating")
           => previous_mouse' = mouse /\ mouse' = mouse
        /\ (pc = "wall_resync" /\ pc' = "handle_cheating")
           => previous_mouse' = mouse /\ mouse' = mouse
        /\ (pc = "handle_cheating" /\ pc' = "classify")
           => /\ previous_mouse' = mouse'
              /\ \/ mouse' = mouse /\ last_moveTo' = last_moveTo
                 \/ /\ last_moveTo'.by = "handle_cheating"
                    /\ mouse' = last_moveTo'.to
              /\ (last_moveTo.by \in {"run_test", "wall"} /\ mouse = last_moveTo.to)
                   => /\ movement' = <<0, 0>>
                      /\ last_moveTo' = last_moveTo ]_vars

\* C24 witness: handle_cheating has run in the tick after a wall reset, the
\* pointer being where the reset put it.
C24_Witness ==
    /\ pc = "classify"
    /\ last_moveTo.by = "wall"
    /\ mouse = last_moveTo.to
    /\ previous_mouse = mouse
    /\ current_mouse = mouse
    /\ resets >= 1

\* the point lies in the start block
in_start(p) == overlapping(<<p[1], p[2], p[1], p[2]>>, items[1].bbox)
\* C25: with offsets that compensate the window chrome, a tick that
\* classifies the pointer where a wall reset has put it, the user not
\* having moved it, finds it inside the start rectangle and not on the
\* wall: no reset follows.
C25_ResetLandsInStart ==
    [][ (/\ pc = "classify"
         /\ pc' # "classify"
         /\ offsets_compensate
         /\ last_moveTo.by = "wall"
         /\ mouse = last_moveTo.to)
        => /\ overlapping(<<mouse_xy'[1], mouse_xy'[2], mouse_xy'[1], mouse_xy'[2]>>,
                          items[1].bbox)
           /\ current_pixel_color' \in {"GREEN", "RED"}
           /\ pc' # "wall_resync"
           /\ last_moveTo' = last_moveTo ]_vars

\* C25 witness: the tick after a wall reset has classified the pointer, not
\* moved since, as Start, and the loop goes on.
C25_Witness ==
    /\ pc = "handle_cheating"
    /\ offsets_compensate
    /\ last_moveTo.by = "wall"
    /\ mouse = last_moveTo.to
    /\ current_pixel_color = "GREEN"
    /\ resets = 0

\* the point lies in a line of one of the direction buckets
in_segment(p) ==
    \E lines \in {east_lines, west_lines, south_lines, north_lines} :
        \E i \in 1..Len(lines) :
            overlapping(<<p[1], p[2], p[1], p[2]>>, items[lines[i]].bbox)
\* what the precedence Goal > Start/Corridor > Wall lets a point's colour be
colours_allowed(p) ==
    IF in_goal(p) THEN {"RED"}
    ELSE IF in_start(p) \/ in_segment(p) THEN {"GREEN", "BLACK"}
    ELSE {"WHITE"}

\* C13: get_pixel_color returns Goal for every point in the goal rectangle,
\* otherwise Start/Corridor for every point in the start rectangle or in a
\* thickened segment, otherwise Wall: for every point of the canvas once the
\* corridor is built, and for every point run_test has classified.
C13_Precedence ==
    /\ (pc = "awake_loop" /\ ~awake)
         => \A x \in 0..canvas[1], y \in 0..canvas[2] :
                get_pixel_color(items, x, y) \in colours_allowed(<<x, y>>)
    /\ current_pixel_color # "none"
         => current_pixel_color \in colours_allowed(mouse_xy)

\* C13 witness: a point in both the goal rectangle and a segment rectangle
\* has been classified, as Goal.
C13_Witness ==
    /\ current_pixel_color = "RED"
    /\ in_goal(mouse_xy)
    /\ in_segment(mouse_xy)

(* ====================================================================== *)
(*                 the connection's and management's properties           *)
(* ====================================================================== *)
\* the sockets connected and not closed after the first k events
open_after(k) ==
    {wire[i].sock : i \in {j \in 1..k :
        /\ wire[j].op = "connect"
        /\ \A c \in (j + 1)..k : ~(wire[c].op = "close" /\ wire[c].sock = wire[j].sock)}}
\* the events that send a command
sends == SelectSeq(wire, LAMBDA ev : ev.op = "send")

\* C18: at no time are two connections open; every connection is a fresh
\* socket; a command is sent on the one connection open, which has carried
\* none before; the commands on the wire are the requests made, one
\* connection each; and when a request function has returned, its
\* connection is closed.
C18_OneConnectionPerRequest ==
    /\ \A k \in 0..Len(wire) : Cardinality(open_after(k)) <= 1
    /\ \A i \in 1..Len(wire) :
         /\ wire[i].op \in {"connect", "refused"}
              => \A j \in 1..(i - 1) : wire[j].sock # wire[i].sock
         /\ wire[i].op \in {"send", "recv", "close"}
              => open_after(i - 1) = {wire[i].sock}
         /\ wire[i].op = "send"
              => \A j \in 1..(i - 1) :
                     ~(wire[j].op = "send" /\ wire[j].sock = wire[i].sock)
    /\ Len(sends) = Len(sent)
    /\ \A i \in 1..Len(sent) : sends[i].data = sent[i]
    /\ pc # "crashed" => open_after(Len(wire)) = {}

\* C18 witness: management has changed the wakeup time, by two requests
\* after the three before them.
C18_Witness ==
    /\ pc = "management"
    /\ Len(sent) >= 5
    /\ sent[Len(sent) - 1] = "set_wakeup_hour 7"
    /\ sent[Len(sent)] = "set_wakeup_minute 0"

\* the functions management calls, and where the program is inside it
management_functions ==
    {"get_timezone_time", "display_timezone_time", "load_user_preferences",
     "set_active_state", "change_wakeup_time", "change_wakeup_window",
     "change_utc_offset", "change_grace_period"}
in_management ==
    pc \in {"management", "load_user_preferences", "get_input", "change", "change_minute"}

\* C19 (as claimed): when a request fails inside management (the server
\* refuses the connection, or its response is malformed), the client does
\* not terminate: it is still in the management loop, where the request can
\* be made again.
C19_ManagementSurvivesFailure ==
    (exception.raised # "" /\ exception.in \in management_functions) => in_management

\* the texts of the Mock test setting that set the flag
mock_flagged == mock_test \in {"true", "True", "TRUE", "1", "yes", "Yes", "YES"}

\* C20: with the mock-test flag set, main goes on to the awake test whatever
\* alarm state the server reported, and management is never entered.
C20_MockRunsTest ==
    [][ mock_flagged
        => /\ (pc = "main" /\ alarm_state \in {0, 1}) => pc' = "create_gui"
           /\ ~in_management
           /\ ~in_management' ]_vars

\* C20 witness: the flag is set in capitals, the server reported the alarm
\* off, and run_test has been called.
C20_Witness ==
    /\ mock_test = "YES"
    /\ server_alarm = 0
    /\ Len(wire) >= 3
    /\ wire[3] = event("recv", 1, "0")
    /\ pc = "run_test"

\* the request just made has raised
raised_now == exception' # exception /\ exception'.raised # "" /\ pc' = "crashed"

\* C28: management does not end on its own: every step taken inside it stays
\* inside it, unless a request raised; each of its places leads on to the
\* next one of the loop, the last ones back to its head; and a number
\* outside 1..5 sends nothing and opens no connection in that pass.
C28_ManagementNeverEnds ==
    [][ /\ in_management => (in_management' \/ raised_now)
        /\ (pc = "management" /\ ~raised_now) => pc' = "load_user_preferences"
        /\ (pc = "load_user_preferences" /\ ~raised_now) => pc' = "get_input"
        /\ pc = "get_input" => pc' = "change"
        /\ (pc = "change" /\ ~raised_now)
           => pc' = IF preference_to_change = 2 THEN "change_minute" ELSE "management"
        /\ (pc = "change_minute" /\ ~raised_now) => pc' = "management"
        /\ (pc = "change" /\ preference_to_change \notin 1..5)
           => /\ sent' = sent
              /\ wire' = wire
              /\ exception' = exception
              /\ pc' = "management" ]_vars

\* C28 witness: after a pass with a number outside 1..5, in which the two
\* get commands were sent and nothing else, management is in its next pass.
C28_Witness ==
    /\ pc = "load_user_preferences"
    /\ preference_to_change \notin 1..5
    /\ sent = <<"get_alarm_state", "get_timezone_time", "get_user_preferences",
                "get_timezone_time">>

(* ====================================================================== *)
(*                       the corrector's properties                       *)
(* ====================================================================== *)
\* the previous sample handle_cheating was called with
sample_before == <<current_mouse[1] - movement[1], current_mouse[2] - movement[2]>>
\* the axis of the larger movement, as handle_cheating takes it
dominant_axis == IF Abs(movement[1]) > Abs(movement[2]) THEN 1 ELSE 2
other_axis == 3 - dominant_axis

\* C2 (as claimed): after handle_cheating, with no user movement during the
\* call, the pointer is at most PRECISION_MOUSE_THRESHOLD away from the
\* previous sample on the dominant axis.
C2_DisplacementBounded ==
    pc = "classify" =>
        Abs(mouse[dominant_axis] - sample_before[dominant_axis])
            <= PRECISION_MOUSE_THRESHOLD

\* C14: a displacement of exactly PRECISION_MOUSE_THRESHOLD on the dominant
\* axis causes no pointer-set, and the new previous sample is the current
\* position; a displacement of one more causes a pointer-set that changes
\* the coordinate of the dominant axis and leaves the other coordinate at
\* its current value.
C14_CorrectorBoundary ==
    pc = "classify" =>
        /\ Abs(movement[dominant_axis]) = PRECISION_MOUSE_THRESHOLD
             => /\ last_moveTo = NoMove
                /\ mouse = current_mouse
                /\ previous_mouse = current_mouse
        /\ Abs(movement[dominant_axis]) = PRECISION_MOUSE_THRESHOLD + 1
             => /\ last_moveTo.by = "handle_cheating"
                /\ last_moveTo.to[dominant_axis] # current_mouse[dominant_axis]
                /\ last_moveTo.to[other_axis] = current_mouse[other_axis]

\* C14 witness: a displacement of one more than the threshold on one axis
\* and of the threshold on the other has been answered.
C14_Witness ==
    /\ pc = "classify"
    /\ Abs(movement[dominant_axis]) = PRECISION_MOUSE_THRESHOLD + 1
    /\ Abs(movement[other_axis]) = PRECISION_MOUSE_THRESHOLD
    /\ last_moveTo.by = "handle_cheating"

\* C3 (as claimed): a correction puts the pointer at the previous sample's
\* coordinate on the dominant axis and at the current sample's coordinate on
\* the other axis.
C3_JumpUndone ==
    (pc = "classify" /\ last_moveTo.by = "handle_cheating") =>
        /\ last_moveTo.to[dominant_axis] = sample_before[dominant_axis]
        /\ last_moveTo.to[other_axis] = current_mouse[other_axis]

====
